---- MODULE Spec2Model ----
(***************************************************************************)
(* TravelVectorDB (src/vector_db.py): a catalog of attractions aligned     *)
(* by position with a flat inner-product index of their normalised         *)
(* description embeddings, searched by similarity with metadata filters     *)
(* and persisted as a <path>.faiss / <path>.json pair.                      *)
(*                                                                         *)
(* Conventions.  Positions are 0-based as in the code; the TLA+ sequence   *)
(* element of position p is [p + 1].  An Optional[...] argument is <<>>    *)
(* for None and <<v>> for the value v.  Floats are fixed point: a unit     *)
(* vector has length Unit, a similarity score is in 1/(Unit*Unit).         *)
(***************************************************************************)
EXTENDS Integers, Sequences, FiniteSets, TLC

VARIABLES
    attractions,  \* self.attractions: the catalog, in insertion order
    index,        \* self.index: the flat inner-product index
    id_to_idx,    \* self.id_to_idx: id -> position
    dimension,    \* self.dimension
    disk,         \* the files <filepath>.faiss and <filepath>.json
    lastCall,     \* the call just made: arguments, exception or result
    threads       \* two threads inside add_attractions and search_similar

\* The assistant built around the engine (src/agents, src/memory, src/tools,
\* src/llm, src/app.py).
VARIABLES
    memory,       \* ConversationMemory: max_history, messages, user_preferences, session_context
    history,      \* every message handed to add_message since the last clear_session
    expenses,     \* BudgetCalculator.expenses: the ledger
    chat_history, \* st.session_state.chat_history of the UI
    turn,         \* the process_message call just made: intent, tool calls, results, reply
    weather,      \* WeatherTool._make_request in progress: attempts, sleeps, result
    gemini,       \* GeminiClient.generate_response in progress: calls, sleeps, result
    ingest        \* generate_realistic_data in progress: the batch being built

dbVars == <<attractions, index, id_to_idx, dimension>>
engineVars == <<attractions, index, id_to_idx, dimension, disk, lastCall, threads>>
agentVars == <<memory, history, expenses, chat_history, turn, weather, gemini, ingest>>
vars == <<attractions, index, id_to_idx, dimension, disk, lastCall, threads,
          memory, history, expenses, chat_history, turn, weather, gemini, ingest>>

\* ------------------------------------------------------------- bounds
\* Catalog sizes explored.
MaxCat == 3
\* Largest batch handed to one add_attractions call.
MaxBatch == 2
\* The dimension the engine is constructed with (384 in the code's default).
D == 2

\* ------------------------------------------------- embedding provider
\* Length of a unit vector in fixed point (1.0).
Unit == 10

\* The raw (not normalised) sentence embedding of a text, in two
\* components; "gallery" points the same way as "art" with twice the length.
RawEmbedding(text) ==
    CASE text = "art"     -> <<3, 4>>
      [] text = "gallery" -> <<6, 8>>
      [] text = "garden"  -> <<4, 3>>
      [] text = "ruins"   -> <<0, 5>>
      [] OTHER            -> <<5, 0>>

\* model.encode(texts) of a model whose embeddings have `dim` components:
\* one row per text.
Encode(texts, dim) ==
    [i \in 1..Len(texts) |->
        [j \in 1..dim |-> IF j <= 2 THEN RawEmbedding(texts[i])[j] ELSE 0]]

RECURSIVE SumSq(_, _)
SumSq(v, n) == IF n = 0 THEN 0 ELSE v[n] * v[n] + SumSq(v, n - 1)

\* The integer square root (exact on the embeddings above).
ISqrt(s) == CHOOSE r \in 0..(s + 1) : r * r <= s /\ (r + 1) * (r + 1) > s

\* faiss.normalize_L2: every row scaled to unit length, a zero row left as is.
NormalizeL2(rows) ==
    [i \in 1..Len(rows) |->
        LET n == ISqrt(SumSq(rows[i], Len(rows[i])))
        IN  IF n = 0 THEN rows[i]
            ELSE [j \in 1..Len(rows[i]) |-> (rows[i][j] * Unit) \div n]]

RECURSIVE Dot(_, _, _)
Dot(u, v, n) == IF n = 0 THEN 0 ELSE u[n] * v[n] + Dot(u, v, n - 1)

\* ------------------------------------------------------------ strings
\* str.lower() on the strings of the model.
Lower(s) ==
    CASE s \in {"Paris", "paris", "PARIS"} -> "paris"
      [] s \in {"Rome", "rome", "ROME"}    -> "rome"
      [] s \in {"Museum", "museum"}        -> "museum"
      [] s \in {"Park", "park", "PARK"}    -> "park"
      [] OTHER                             -> s

\* Python truthiness of an Optional[str] / Optional[float] argument.
TruthyStr(opt) == opt # <<>> /\ opt[1] # ""
TruthyNum(opt) == opt # <<>> /\ opt[1] # 0

\* ------------------------------------------------------------ records
\* Attraction: the fields the engine reads.  The cost is in dollars, the
\* rating in tenths.
Attraction(id, city, category, cost, rating, description) ==
    [id |-> id, city |-> city, category |-> category,
     avg_cost_usd |-> cost, rating |-> rating, description |-> description]

Pool ==
    { Attraction("P1", "Paris", "Museum", 10, 45, "art"),
      Attraction("P2", "paris", "museum", 20, 40, "gallery"),
      Attraction("P3", "Rome",  "Park",    0, 38, "garden"),
      Attraction("P1", "Rome",  "Museum", 30, 47, "ruins") }

PersistPool ==
    { Attraction("P1", "Paris", "Museum", 10, 45, "art"),
      Attraction("P3", "Rome",  "Park",    0, 38, "garden") }

Batches(pool) == UNION { [1..n -> pool] : n \in 1..MaxBatch }

Queries == {"art", "ruins"}
Limits == {-1, 0, 1, 2}
CategoryFilters == {<<>>, <<"museum">>}
CityFilters == {<<>>, <<"PARIS">>}
CostFilters == {<<>>, <<0>>, <<15>>}
ProviderDims == {D, D + 1}
Ids == {"P1", "P2", "P9"}
Cities == {"PARIS", "Rome", "Cairo"}
Categories == {"museum", "Park"}

\* --------------------------------------------------------------- index
\* faiss.IndexFlatIP(d): its dimension and its vectors in insertion order.
IndexFlatIP(d) == [d |-> d, vecs |-> <<>>]

\* index.add(x): asserts x's dimension, then appends the rows.
IndexAdd(ix, rows) == [ix EXCEPT !.vecs = @ \o rows]

Score(ix, q, pos) == Dot(ix.vecs[pos + 1], q, ix.d)

\* index.search(q, n): the n best (score, position) pairs, best first, padded
\* with position -1 when the index holds fewer than n vectors.  The order of
\* equal scores is the library's own: every order is a possible outcome.
IndexSearch(ix, q, n) ==
    LET total == Len(ix.vecs)
        orders == { o \in [1..total -> 0..(total - 1)] :
                      /\ \A i, j \in 1..total : i # j => o[i] # o[j]
                      /\ \A i \in 1..total : i < total =>
                             Score(ix, q, o[i]) >= Score(ix, q, o[i + 1]) }
    IN  { [i \in 1..n |->
              IF i <= total THEN [idx |-> o[i], score |-> Score(ix, q, o[i])]
              ELSE [idx |-> -1, score |-> -(Unit * Unit) - 1]] : o \in orders }

\* -------------------------------------------------------- the last call
NoCall ==
    [op |-> "none", outcome |-> "ok", batch |-> <<>>, query |-> "", k |-> 0,
     category_filter |-> <<>>, city_filter |-> <<>>, max_cost |-> <<>>,
     providerUp |-> TRUE, dim |-> D, ranking |-> <<>>, results |-> <<>>,
     key |-> "", value |-> <<>>]

\* ------------------------------------------------------ add_attractions
\* id_to_idx after the loop of lines 374-376: each id of the batch maps to the
\* position of its last occurrence.
MapBatch(map, batch, start) ==
    [id \in DOMAIN map \cup { batch[i].id : i \in 1..Len(batch) } |->
        IF \E i \in 1..Len(batch) : batch[i].id = id
        THEN start - 1 + CHOOSE i \in 1..Len(batch) :
                 /\ batch[i].id = id
                 /\ \A j \in 1..Len(batch) : batch[j].id = id => j <= i
        ELSE map[id]]

\* add_attractions with the catalog loop moved before index.add: a rejected
\* batch is already in the catalog and the map.
add_attractions_CatalogFirst(batch, providerUp, dim) ==
    LET descriptions == [i \in 1..Len(batch) |-> batch[i].description]
        embeddings == NormalizeL2(Encode(descriptions, dim))
        call == [NoCall EXCEPT !.op = "add", !.batch = batch,
                               !.providerUp = providerUp, !.dim = dim]
    IN  IF ~providerUp
        THEN /\ lastCall' = [call EXCEPT !.outcome = "ProviderError"]
             /\ UNCHANGED dbVars
        ELSE /\ attractions' = attractions \o batch
             /\ id_to_idx' = MapBatch(id_to_idx, batch, Len(attractions))
             /\ UNCHANGED dimension
             /\ IF dim # index.d
                THEN /\ lastCall' = [call EXCEPT !.outcome = "AssertionError"]
                     /\ UNCHANGED index
                ELSE /\ index' = IndexAdd(index, embeddings)
                     /\ lastCall' = call

\* add_attractions that stores the embeddings as the model gave them.
add_attractions_NoNormalize(batch, providerUp, dim) ==
    LET descriptions == [i \in 1..Len(batch) |-> batch[i].description]
        embeddings == Encode(descriptions, dim)
        call == [NoCall EXCEPT !.op = "add", !.batch = batch,
                               !.providerUp = providerUp, !.dim = dim]
    IN  IF ~providerUp
        THEN /\ lastCall' = [call EXCEPT !.outcome = "ProviderError"]
             /\ UNCHANGED dbVars
        ELSE IF dim # index.d
        THEN /\ lastCall' = [call EXCEPT !.outcome = "AssertionError"]
             /\ UNCHANGED dbVars
        ELSE /\ index' = IndexAdd(index, embeddings)
             /\ attractions' = attractions \o batch
             /\ id_to_idx' = MapBatch(id_to_idx, batch, Len(attractions))
             /\ lastCall' = call
             /\ UNCHANGED dimension

\* add_attractions that puts the batch at the front of the catalog.
add_attractions_Prepends(batch, providerUp, dim) ==
    LET descriptions == [i \in 1..Len(batch) |-> batch[i].description]
        embeddings == NormalizeL2(Encode(descriptions, dim))
        call == [NoCall EXCEPT !.op = "add", !.batch = batch,
                               !.providerUp = providerUp, !.dim = dim]
    IN  IF ~providerUp
        THEN /\ lastCall' = [call EXCEPT !.outcome = "ProviderError"]
             /\ UNCHANGED dbVars
        ELSE IF dim # index.d
        THEN /\ lastCall' = [call EXCEPT !.outcome = "AssertionError"]
             /\ UNCHANGED dbVars
        ELSE /\ index' = IndexAdd(index, embeddings)
             /\ attractions' = batch \o attractions
             /\ id_to_idx' = MapBatch(id_to_idx, batch, Len(attractions))
             /\ lastCall' = call
             /\ UNCHANGED dimension

add_attractions(batch, providerUp, dim) ==
    LET descriptions == [i \in 1..Len(batch) |-> batch[i].description]
        embeddings == NormalizeL2(Encode(descriptions, dim))
        call == [NoCall EXCEPT !.op = "add", !.batch = batch,
                               !.providerUp = providerUp, !.dim = dim]
    IN  IF ~providerUp
        THEN /\ lastCall' = [call EXCEPT !.outcome = "ProviderError"]
             /\ UNCHANGED dbVars
        ELSE IF dim # index.d
        THEN /\ lastCall' = [call EXCEPT !.outcome = "AssertionError"]
             /\ UNCHANGED dbVars
        ELSE /\ index' = IndexAdd(index, embeddings)
             /\ attractions' = attractions \o batch
             /\ id_to_idx' = MapBatch(id_to_idx, batch, Len(attractions))
             /\ lastCall' = call
             /\ UNCHANGED dimension

\* ------------------------------------------------------- search_similar
\* Lines 410-415: whether the record is skipped by a filter.
Skipped(a, category_filter, city_filter, max_cost) ==
    \/ TruthyStr(category_filter) /\ Lower(a.category) # Lower(category_filter[1])
    \/ TruthyStr(city_filter) /\ Lower(a.city) # Lower(city_filter[1])
    \/ TruthyNum(max_cost) /\ a.avg_cost_usd > max_cost[1]

\* The loop of lines 403-422 from entry i of the ranking on, with `results`
\* collected so far: the outcome and the results returned.
RECURSIVE Walk(_, _, _, _, _, _, _, _)
Walk(cat, ranking, i, results, k, cf, yf, mc) ==
    IF i > Len(ranking)
    THEN [outcome |-> "ok", results |-> results]
    ELSE LET idx == ranking[i].idx IN
         IF idx = -1
         THEN Walk(cat, ranking, i + 1, results, k, cf, yf, mc)
         ELSE IF idx >= Len(cat)
         THEN [outcome |-> "IndexError", results |-> <<>>]
         ELSE IF Skipped(cat[idx + 1], cf, yf, mc)
         THEN Walk(cat, ranking, i + 1, results, k, cf, yf, mc)
         ELSE LET more == Append(results,
                              [rec |-> cat[idx + 1],
                               similarity_score |-> ranking[i].score])
              IN  IF Len(more) >= k
                  THEN [outcome |-> "ok", results |-> more]
                  ELSE Walk(cat, ranking, i + 1, more, k, cf, yf, mc)

\* search_similar that swallows a provider failure and returns no result.
search_similar_SwallowsFailure(query, k, category_filter, city_filter, max_cost, providerUp, dim) ==
    LET call == [NoCall EXCEPT !.op = "search", !.query = query, !.k = k,
                               !.category_filter = category_filter,
                               !.city_filter = city_filter,
                               !.max_cost = max_cost,
                               !.providerUp = providerUp, !.dim = dim]
        query_embedding == NormalizeL2(Encode(<<query>>, dim))[1]
    IN  /\ UNCHANGED dbVars
        /\ IF Len(attractions) = 0 \/ ~providerUp
           THEN lastCall' = call
           ELSE IF dim # index.d
           THEN lastCall' = [call EXCEPT !.outcome = "AssertionError"]
           ELSE \E ranking \in IndexSearch(index, query_embedding, Len(attractions)) :
                    LET w == Walk(attractions, ranking, 1, <<>>, k,
                                  category_filter, city_filter, max_cost)
                    IN  lastCall' = [call EXCEPT !.outcome = w.outcome,
                                                 !.ranking = ranking,
                                                 !.results = w.results]

\* search_similar without the empty-catalog return of lines 395-396: the
\* query is embedded first.
search_similar_NoEmptyReturn(query, k, category_filter, city_filter, max_cost, providerUp, dim) ==
    LET call == [NoCall EXCEPT !.op = "search", !.query = query, !.k = k,
                               !.category_filter = category_filter,
                               !.city_filter = city_filter,
                               !.max_cost = max_cost,
                               !.providerUp = providerUp, !.dim = dim]
        query_embedding == NormalizeL2(Encode(<<query>>, dim))[1]
    IN  /\ UNCHANGED dbVars
        /\ IF ~providerUp
           THEN lastCall' = [call EXCEPT !.outcome = "ProviderError"]
           ELSE IF dim # index.d \/ Len(attractions) = 0
           THEN lastCall' = [call EXCEPT !.outcome = "AssertionError"]
           ELSE \E ranking \in IndexSearch(index, query_embedding, Len(attractions)) :
                    LET w == Walk(attractions, ranking, 1, <<>>, k,
                                  category_filter, city_filter, max_cost)
                    IN  lastCall' = [call EXCEPT !.outcome = w.outcome,
                                                 !.ranking = ranking,
                                                 !.results = w.results]

\* What a search of the catalog `cat` and the index `ix` can end with: the
\* exception or "ok", the ranking the index gave and the results returned.
SearchOutcomes(cat, ix, query, k, category_filter, city_filter, max_cost, providerUp, dim) ==
    LET none == [outcome |-> "ok", ranking |-> <<>>, results |-> <<>>]
        query_embedding == NormalizeL2(Encode(<<query>>, dim))[1]
    IN  IF Len(cat) = 0
        THEN {none}
        ELSE IF ~providerUp
        THEN {[none EXCEPT !.outcome = "ProviderError"]}
        ELSE IF dim # ix.d
        THEN {[none EXCEPT !.outcome = "AssertionError"]}
        ELSE { LET w == Walk(cat, ranking, 1, <<>>, k,
                             category_filter, city_filter, max_cost)
               IN  [outcome |-> w.outcome, ranking |-> ranking,
                    results |-> w.results] :
               ranking \in IndexSearch(ix, query_embedding, Len(cat)) }

search_similar(query, k, category_filter, city_filter, max_cost, providerUp, dim) ==
    LET call == [NoCall EXCEPT !.op = "search", !.query = query, !.k = k,
                               !.category_filter = category_filter,
                               !.city_filter = city_filter,
                               !.max_cost = max_cost,
                               !.providerUp = providerUp, !.dim = dim]
    IN  /\ UNCHANGED dbVars
        /\ \E o \in SearchOutcomes(attractions, index, query, k, category_filter,
                                   city_filter, max_cost, providerUp, dim) :
               lastCall' = [call EXCEPT !.outcome = o.outcome,
                                        !.ranking = o.ranking,
                                        !.results = o.results]

\* ------------------------------------------------------------- lookups
\* get_by_id: the record at the position the map gives, None (<<>>) for an id
\* that is not in the map.
get_by_id(attraction_id) ==
    LET call == [NoCall EXCEPT !.op = "get_by_id", !.key = attraction_id] IN
    /\ UNCHANGED dbVars
    /\ IF attraction_id \in DOMAIN id_to_idx
       THEN LET idx == id_to_idx[attraction_id] IN
            IF idx >= Len(attractions)
            THEN lastCall' = [call EXCEPT !.outcome = "IndexError"]
            ELSE lastCall' = [call EXCEPT !.value = <<attractions[idx + 1]>>]
       ELSE lastCall' = call

\* The loops of lines 435-439 and 443-447 from record i on: the records whose
\* field equals the key once both are lowered.
RECURSIVE Scan(_, _, _, _)
Scan(cat, fieldName, key, i) ==
    IF i > Len(cat) THEN <<>>
    ELSE (IF Lower(cat[i][fieldName]) = Lower(key) THEN <<cat[i]>> ELSE <<>>)
             \o Scan(cat, fieldName, key, i + 1)

\* get_by_city that compares the city as written.
get_by_city_CaseSensitive(city) ==
    /\ UNCHANGED dbVars
    /\ lastCall' = [NoCall EXCEPT !.op = "get_by_city", !.key = city,
                                  !.value = SelectSeq(attractions,
                                                LAMBDA a : a.city = city)]

get_by_city(city) ==
    /\ UNCHANGED dbVars
    /\ lastCall' = [NoCall EXCEPT !.op = "get_by_city", !.key = city,
                                  !.value = Scan(attractions, "city", city, 1)]

get_by_category(category) ==
    /\ UNCHANGED dbVars
    /\ lastCall' = [NoCall EXCEPT !.op = "get_by_category", !.key = category,
                                  !.value = Scan(attractions, "category", category, 1)]

\* ------------------------------------------------------- get_statistics
RECURSIVE SumField(_, _, _)
SumField(cat, fieldName, n) ==
    IF n = 0 THEN 0 ELSE cat[n][fieldName] + SumField(cat, fieldName, n - 1)

\* round(np.mean(...), 2) in hundredths: total / n to the nearest hundredth,
\* `total` being in hundredths.
RoundedMean(total, n) == (2 * total + n) \div (2 * n)

\* The dictionary get_statistics returns for a catalog; a sorted list of
\* distinct strings is the set of them.
Statistics(cat) ==
    IF Len(cat) = 0
    THEN [total_attractions |-> 0]
    ELSE LET cities == { cat[i].city : i \in 1..Len(cat) }
             categories == { cat[i].category : i \in 1..Len(cat) }
         IN  [total_attractions |-> Len(cat),
              cities |-> Cardinality(cities),
              categories |-> Cardinality(categories),
              avg_rating |-> RoundedMean(10 * SumField(cat, "rating", Len(cat)), Len(cat)),
              avg_cost_usd |-> RoundedMean(100 * SumField(cat, "avg_cost_usd", Len(cat)), Len(cat)),
              city_list |-> cities,
              category_list |-> categories]

\* get_statistics that pops the records off the catalog as it counts them.
get_statistics_DrainsCatalog ==
    /\ attractions' = <<>>
    /\ UNCHANGED <<index, id_to_idx, dimension>>
    /\ lastCall' = [NoCall EXCEPT !.op = "get_statistics",
                                  !.value = Statistics(attractions)]

get_statistics ==
    /\ UNCHANGED dbVars
    /\ lastCall' = [NoCall EXCEPT !.op = "get_statistics",
                                  !.value = Statistics(attractions)]

\* ---------------------------------------------------------- persistence
\* The two files of one path.  A file is absent, corrupt (cut short by an
\* interrupted write) or ok with its content.  faiss.write_index stores the
\* index's dimension and vectors as they are; json.dump of asdict(...) stores
\* each record as the same mapping from field names to strings and numbers,
\* which Attraction(**attr_data) reads back field by field.
NoFaiss == [state |-> "absent", index |-> IndexFlatIP(D)]
NoJson ==
    [state |-> "absent", attractions |-> <<>>, id_to_idx |-> <<>>, dimension |-> D]

FaissFile(ix) == [state |-> "ok", index |-> ix]
JsonFile(cat, map, dim) ==
    [state |-> "ok", attractions |-> cat, id_to_idx |-> map, dimension |-> dim]

\* The step of save_database that raises, or "ok" when none does.
SaveOutcomes == {"makedirs", "write_index", "open_json", "json_dump", "ok"}

\* save_database that writes the vector file only when there is none yet.
save_database_KeepsOldIndex(raises) ==
    LET call == [NoCall EXCEPT !.op = "save",
                               !.outcome = IF raises = "ok" THEN "ok" ELSE "IOError"]
        newFaiss == IF disk.faiss.state = "ok" THEN disk.faiss ELSE FaissFile(index)
        newJson == JsonFile(attractions, id_to_idx, dimension)
    IN  /\ lastCall' = call
        /\ UNCHANGED dbVars
        /\ CASE raises = "makedirs" -> UNCHANGED disk
             [] raises = "write_index" ->
                    \E f \in {disk.faiss, [disk.faiss EXCEPT !.state = "corrupt"]} :
                        disk' = [disk EXCEPT !.faiss = f]
             [] raises = "open_json" -> disk' = [disk EXCEPT !.faiss = newFaiss]
             [] raises = "json_dump" ->
                    disk' = [faiss |-> newFaiss,
                             json |-> [disk.json EXCEPT !.state = "corrupt"]]
             [] OTHER -> disk' = [faiss |-> newFaiss, json |-> newJson]

\* save_database: lines 451-462 in order, cut at the step that raises.  A
\* write_index that raises leaves the .faiss file as it was or cut short;
\* open(..., 'w') truncates the .json file before json.dump fills it.
save_database(raises) ==
    LET call == [NoCall EXCEPT !.op = "save",
                               !.outcome = IF raises = "ok" THEN "ok" ELSE "IOError"]
        newFaiss == FaissFile(index)
        newJson == JsonFile(attractions, id_to_idx, dimension)
    IN  /\ lastCall' = call
        /\ UNCHANGED dbVars
        /\ CASE raises = "makedirs" -> UNCHANGED disk
             [] raises = "write_index" ->
                    \E f \in {disk.faiss, [disk.faiss EXCEPT !.state = "corrupt"]} :
                        disk' = [disk EXCEPT !.faiss = f]
             [] raises = "open_json" -> disk' = [disk EXCEPT !.faiss = newFaiss]
             [] raises = "json_dump" ->
                    disk' = [faiss |-> newFaiss,
                             json |-> [disk.json EXCEPT !.state = "corrupt"]]
             [] OTHER -> disk' = [faiss |-> newFaiss, json |-> newJson]

\* The fields of an engine as one value.
Engine(cat, ix, map, dim) ==
    [attractions |-> cat, index |-> ix, id_to_idx |-> map, dimension |-> dim]

\* TravelVectorDB(dimension=dim): a fresh engine.
FreshEngine(dim) == Engine(<<>>, IndexFlatIP(dim), <<>>, dim)

\* load_database of the files `d` into the engine `eng`, lines 468-475 in
\* order: the engine after the call and the exception or "ok".  Each
\* assignment takes effect when its line is reached, a raise leaves the
\* later ones undone.
LoadResult(d, eng) ==
    IF d.faiss.state # "ok"
    THEN [engine |-> eng, outcome |-> "IndexReadError"]
    ELSE IF d.json.state # "ok"
    THEN [engine |-> [eng EXCEPT !.index = d.faiss.index],
          outcome |-> IF d.json.state = "absent" THEN "FileNotFoundError"
                      ELSE "JSONDecodeError"]
    ELSE [engine |-> Engine(d.json.attractions, d.faiss.index,
                            d.json.id_to_idx, d.json.dimension),
          outcome |-> "ok"]

load_database ==
    LET r == LoadResult(disk, Engine(attractions, index, id_to_idx, dimension)) IN
    /\ UNCHANGED disk
    /\ attractions' = r.engine.attractions
    /\ index' = r.engine.index
    /\ id_to_idx' = r.engine.id_to_idx
    /\ dimension' = r.engine.dimension
    /\ lastCall' = [NoCall EXCEPT !.op = "load", !.outcome = r.outcome]

\* -------------------------------------------------------- specifications
\* No thread is inside a call.  The thread in add_attractions holds its
\* batch, embeddings, start_idx and loop counter; the thread in
\* search_similar holds its query embedding, the ranking and the sizes the
\* index call of line 401 worked on, its loop counter, results and outcome.
NoThreads ==
    [add |-> [pc |-> "idle", batch |-> <<>>, embeddings |-> <<>>,
              start_idx |-> 0, i |-> 0],
     search |-> [pc |-> "idle", query_embedding |-> <<>>, ranking |-> <<>>,
                 seen |-> [catalog |-> 0, index |-> 0],
                 i |-> 0, k |-> 0, results |-> <<>>, outcome |-> "ok"]]

\* ------------------------------------------------ the assistant's objects
\* config.CONVERSATION_HISTORY_LIMIT.
CONVERSATION_HISTORY_LIMIT == 20

\* ConversationMemory(max_history), lines 34-38.  user_preferences is <<>>
\* for None; of session_context the one key the assistant uses is kept,
\* <<>> when the key is absent.
ConversationMemory(max_history) ==
    [max_history |-> max_history,
     messages |-> <<>>,
     user_preferences |-> <<>>,
     session_context |-> [current_destination |-> <<>>]]

\* No process_message call has been made.
NoTurn ==
    [op |-> "none", user_input |-> "", outcome |-> "ok", destination |-> <<>>,
     weather_call |-> <<>>, places_call |-> <<>>, results |-> <<>>, reply |-> ""]

\* No _make_request call is in progress.
NoRequest ==
    [pc |-> "idle", retry_count |-> 0, retry_delay |-> 0, attempt |-> 0,
     log |-> <<>>, result |-> <<>>]

\* No generate_response call is in progress.
NoGeneration ==
    [pc |-> "idle", retry_count |-> 0, attempt |-> 0, log |-> <<>>, result |-> <<>>]

\* generate_realistic_data is not running.
NoIngest ==
    [pc |-> "idle", count |-> 0, attractions |-> <<>>]

Init ==
    /\ attractions = <<>>
    /\ index = IndexFlatIP(D)
    /\ id_to_idx = <<>>
    /\ dimension = D
    /\ disk = [faiss |-> NoFaiss, json |-> NoJson]
    /\ lastCall = NoCall
    /\ threads = NoThreads
    /\ memory = ConversationMemory(CONVERSATION_HISTORY_LIMIT)
    /\ history = <<>>
    /\ expenses = <<>>
    /\ chat_history = <<>>
    /\ turn = NoTurn
    /\ weather = NoRequest
    /\ gemini = NoGeneration
    /\ ingest = NoIngest

\* The caller is between two calls: the previous call's outcome was taken.
Idle == lastCall.op = "none"

\* The caller takes the outcome of the call it made.
Return ==
    /\ ~Idle
    /\ lastCall' = NoCall
    /\ UNCHANGED <<dbVars, disk, threads, agentVars>>

Add ==
    \E batch \in Batches(Pool), providerUp \in BOOLEAN, dim \in ProviderDims :
        /\ Idle
        /\ Len(attractions) + Len(batch) <= MaxCat
        /\ add_attractions(batch, providerUp, dim)
        /\ UNCHANGED <<disk, threads, agentVars>>

Search ==
    \E query \in Queries, k \in Limits, category_filter \in CategoryFilters,
       city_filter \in CityFilters, max_cost \in CostFilters,
       providerUp \in BOOLEAN, dim \in ProviderDims :
        /\ Idle
        /\ search_similar(query, k, category_filter, city_filter, max_cost,
                          providerUp, dim)
        /\ UNCHANGED <<disk, threads, agentVars>>

GetById ==
    \E attraction_id \in Ids :
        /\ Idle
        /\ get_by_id(attraction_id)
        /\ UNCHANGED <<disk, threads, agentVars>>

GetByCity ==
    \E city \in Cities :
        /\ Idle
        /\ get_by_city(city)
        /\ UNCHANGED <<disk, threads, agentVars>>

GetByCategory ==
    \E category \in Categories :
        /\ Idle
        /\ get_by_category(category)
        /\ UNCHANGED <<disk, threads, agentVars>>

GetStatistics ==
    /\ Idle
    /\ get_statistics
    /\ UNCHANGED <<disk, threads, agentVars>>

\* The in-memory engine: ingestion, queries and lookups.
Next ==
    \/ Add
    \/ Search
    \/ GetById
    \/ GetByCity
    \/ GetByCategory
    \/ GetStatistics
    \/ Return

Spec == Init /\ [][Next]_vars

AddPersist ==
    \E batch \in Batches(PersistPool), providerUp \in BOOLEAN :
        /\ Idle
        /\ Len(attractions) + Len(batch) <= MaxCat
        /\ Len(index.vecs) + Len(batch) <= MaxCat
        /\ add_attractions(batch, providerUp, D)
        /\ UNCHANGED <<disk, threads, agentVars>>

SearchPersist ==
    \E k \in {0, MaxCat}, max_cost \in {<<>>, <<15>>}, providerUp \in BOOLEAN :
        /\ Idle
        /\ search_similar("art", k, <<>>, <<>>, max_cost, providerUp, D)
        /\ UNCHANGED <<disk, threads, agentVars>>

Save ==
    \E raises \in SaveOutcomes :
        /\ Idle
        /\ save_database(raises)
        /\ UNCHANGED <<threads, agentVars>>

Load ==
    /\ Idle
    /\ load_database
    /\ UNCHANGED <<threads, agentVars>>

\* The engine with its persisted pair: ingestion, queries, lookups, save
\* and load.
NextPersist ==
    \/ AddPersist
    \/ SearchPersist
    \/ GetById
    \/ GetByCity
    \/ GetByCategory
    \/ GetStatistics
    \/ Save
    \/ Load
    \/ Return

SpecPersist == Init /\ [][NextPersist]_vars

\* An engine filled by add_attractions calls and saved from time to time.
NextRoundTrip ==
    \/ AddPersist
    \/ Save
    \/ Return

SpecRoundTrip == Init /\ [][NextRoundTrip]_vars

\* TravelVectorDB(dimension=dim), lines 52-55: the caller goes on with a new
\* instance; the files written through earlier instances stay where they are.
Construct ==
    \E dim \in ProviderDims :
        /\ Idle
        /\ attractions' = FreshEngine(dim).attractions
        /\ index' = FreshEngine(dim).index
        /\ id_to_idx' = FreshEngine(dim).id_to_idx
        /\ dimension' = FreshEngine(dim).dimension
        /\ lastCall' = [NoCall EXCEPT !.op = "init", !.dim = dim]
        /\ UNCHANGED <<disk, threads, agentVars>>

\* Instances constructed one after the other over the same path.
NextInstances ==
    \/ Construct
    \/ AddPersist
    \/ Save
    \/ Load
    \/ Return

SpecInstances == Init /\ [][NextInstances]_vars

\* Two threads on one engine, one in add_attractions and one in
\* search_similar, a step per statement.  Neither method takes a lock, so
\* the steps of the two interleave freely.

\* Lines 366-369: the batch is encoded and normalised.
AddEncode ==
    \E batch \in Batches(PersistPool) :
        /\ threads.add.pc = "idle"
        /\ batch # <<>>
        /\ Len(attractions) + Len(batch) <= MaxCat
        /\ threads' = [threads EXCEPT !.add =
               [@ EXCEPT !.pc = "encoded", !.batch = batch,
                         !.embeddings = NormalizeL2(Encode(
                             [i \in 1..Len(batch) |-> batch[i].description], D))]]
        /\ UNCHANGED <<dbVars, disk, lastCall, agentVars>>

\* Line 371: the index grows by the whole batch.
AddIndex ==
    /\ threads.add.pc = "encoded"
    /\ index' = IndexAdd(index, threads.add.embeddings)
    /\ threads' = [threads EXCEPT !.add.pc = "indexed"]
    /\ UNCHANGED <<attractions, id_to_idx, dimension, disk, lastCall, agentVars>>

\* Line 373: start_idx = len(self.attractions).
AddStartIdx ==
    /\ threads.add.pc = "indexed"
    /\ threads' = [threads EXCEPT !.add.pc = "loop",
                                  !.add.start_idx = Len(attractions),
                                  !.add.i = 0]
    /\ UNCHANGED <<dbVars, disk, lastCall, agentVars>>

\* Lines 374-376, one iteration: the catalog grows by one record.
AddAppend ==
    LET t == threads.add IN
    /\ t.pc = "loop"
    /\ t.i < Len(t.batch)
    /\ attractions' = Append(attractions, t.batch[t.i + 1])
    /\ id_to_idx' = MapBatch(id_to_idx, <<t.batch[t.i + 1]>>, t.start_idx + t.i)
    /\ threads' = [threads EXCEPT !.add.i = t.i + 1]
    /\ UNCHANGED <<index, dimension, disk, lastCall, agentVars>>

\* The loop is over: add_attractions returns.
AddReturn ==
    /\ threads.add.pc = "loop"
    /\ threads.add.i = Len(threads.add.batch)
    /\ threads' = [threads EXCEPT !.add = NoThreads.add]
    /\ UNCHANGED <<dbVars, disk, lastCall, agentVars>>

\* Lines 395-399: an empty catalog returns [], otherwise the query is
\* encoded and normalised.
SearchEncode ==
    \E query \in Queries, k \in {1, MaxCat} :
        /\ threads.search.pc = "idle"
        /\ threads' = [threads EXCEPT !.search =
               IF Len(attractions) = 0
               THEN [@ EXCEPT !.pc = "done", !.k = k]
               ELSE [@ EXCEPT !.pc = "encoded", !.k = k,
                              !.query_embedding =
                                  NormalizeL2(Encode(<<query>>, D))[1]]]
        /\ UNCHANGED <<dbVars, disk, lastCall, agentVars>>

\* Line 401: the index as it is now ranks len(self.attractions) entries.
SearchRank ==
    /\ threads.search.pc = "encoded"
    /\ \E ranking \in IndexSearch(index, threads.search.query_embedding,
                                    Len(attractions)) :
           threads' = [threads EXCEPT !.search =
               [@ EXCEPT !.pc = "walk", !.ranking = ranking, !.i = 1,
                         !.seen = [catalog |-> Len(attractions),
                                   index |-> Len(index.vecs)]]]
    /\ UNCHANGED <<dbVars, disk, lastCall, agentVars>>

\* Lines 403-422, one iteration on the catalog as it is now (no filter
\* given), or the end of the loop.
SearchWalk ==
    LET t == threads.search IN
    /\ t.pc = "walk"
    /\ threads' = [threads EXCEPT !.search =
           IF t.i > Len(t.ranking)
           THEN [@ EXCEPT !.pc = "done"]
           ELSE LET idx == t.ranking[t.i].idx IN
                IF idx = -1
                THEN [@ EXCEPT !.i = t.i + 1]
                ELSE IF idx >= Len(attractions)
                THEN [@ EXCEPT !.pc = "done", !.outcome = "IndexError",
                               !.results = <<>>]
                ELSE LET more == Append(t.results,
                                     [rec |-> attractions[idx + 1],
                                      similarity_score |-> t.ranking[t.i].score])
                     IN  IF Len(more) >= t.k
                         THEN [@ EXCEPT !.pc = "done", !.results = more]
                         ELSE [@ EXCEPT !.i = t.i + 1, !.results = more]]
    /\ UNCHANGED <<dbVars, disk, lastCall, agentVars>>

\* search_similar returns or raises.
SearchReturn ==
    /\ threads.search.pc = "done"
    /\ threads' = [threads EXCEPT !.search = NoThreads.search]
    /\ UNCHANGED <<dbVars, disk, lastCall, agentVars>>

NextConcurrent ==
    \/ AddEncode
    \/ AddIndex
    \/ AddStartIdx
    \/ AddAppend
    \/ AddReturn
    \/ SearchEncode
    \/ SearchRank
    \/ SearchWalk
    \/ SearchReturn

SpecConcurrent == Init /\ [][NextConcurrent]_vars

\* ---------------------------------------------------- ConversationMemory
\* Largest max_history and number of add_message calls between two clears
\* explored.
MaxHistory == 2
MaxAdded == 4

\* The texts users type, in lower case.
UserInputs ==
    {"hello", "weather in paris", "recommend a museum",
     "budget trip to rome", "luxury trip to ny"}

\* The keywords of the code's keyword lists that occur in a text
\* (`keyword in text.lower()`).
Keywords(text) ==
    CASE text = "weather in paris"    -> {"weather"}
      [] text = "recommend a museum"  -> {"recommend", "museum"}
      [] text = "budget trip to rome" -> {"budget", "trip"}
      [] text = "luxury trip to ny"   -> {"luxury", "trip"}
      [] OTHER                        -> {}

\* Python's s[-n:] and s[:-n] for n >= 0: -0 is 0, so s[-0:] is the whole
\* sequence and s[:-0] is empty.
PyLast(s, n) ==
    IF n = 0 \/ n >= Len(s) THEN s ELSE SubSeq(s, Len(s) - n + 1, Len(s))

PyDropLast(s, n) ==
    IF n = 0 \/ n >= Len(s) THEN <<>> ELSE SubSeq(s, 1, Len(s) - n)

Message(role, content) == [role |-> role, content |-> content]

\* _is_important_message, lines 78-87.
is_important_message(message) ==
    Keywords(message.content) \cap {"budget", "luxury"} # {}

\* _truncate_history, lines 59-76, on the messages.
truncate_history(messages, max_history) ==
    IF Len(messages) <= max_history
    THEN messages
    ELSE LET recent_messages == PyLast(messages, max_history)
             important_messages ==
                 SelectSeq(PyDropLast(messages, max_history), is_important_message)
             available_slots == max_history - Len(recent_messages)
             kept == IF important_messages = <<>> THEN <<>>
                     ELSE IF available_slots > 0
                          THEN PyLast(important_messages, available_slots)
                          ELSE <<>>
         IN  kept \o recent_messages

\* _extract_preferences, lines 89-146: the preferences after a user text;
\* the interests and the travel style are kept.
extract_preferences(user_preferences, user_input) ==
    LET prefs == IF user_preferences = <<>>
                 THEN [interests |-> {}, travel_style |-> "mid_range"]
                 ELSE user_preferences[1]
        words == Keywords(user_input)
    IN  <<[interests |-> prefs.interests \cup
                             (IF "museum" \in words THEN {"art"} ELSE {}),
           travel_style |-> IF "luxury" \in words THEN "luxury"
                            ELSE IF "budget" \in words THEN "budget"
                            ELSE prefs.travel_style]>>

\* add_message, lines 40-57: the memory after the call.
add_message(mem, role, content) ==
    LET appended == Append(mem.messages, Message(role, content))
        cut == IF Len(appended) > mem.max_history
               THEN truncate_history(appended, mem.max_history)
               ELSE appended
    IN  [mem EXCEPT !.messages = cut,
                    !.user_preferences =
                        IF role = "user" THEN extract_preferences(@, content) ELSE @]

\* clear_session that also forgets the preferences.
clear_session_Forgets(mem) ==
    [mem EXCEPT !.messages = <<>>,
                !.user_preferences = <<>>,
                !.session_context = [current_destination |-> <<>>]]

\* clear_session, lines 191-195.
clear_session(mem) ==
    [mem EXCEPT !.messages = <<>>,
                !.session_context = [current_destination |-> <<>>]]

\* update_session_context("current_destination", value), lines 182-185.
update_session_context(mem, value) ==
    [mem EXCEPT !.session_context.current_destination = <<value>>]

\* A ConversationMemory of any max_history on its own.
InitMemory ==
    /\ attractions = <<>>
    /\ index = IndexFlatIP(D)
    /\ id_to_idx = <<>>
    /\ dimension = D
    /\ disk = [faiss |-> NoFaiss, json |-> NoJson]
    /\ lastCall = NoCall
    /\ threads = NoThreads
    /\ \E max_history \in 0..MaxHistory : memory = ConversationMemory(max_history)
    /\ history = <<>>
    /\ expenses = <<>>
    /\ chat_history = <<>>
    /\ turn = NoTurn
    /\ weather = NoRequest
    /\ gemini = NoGeneration
    /\ ingest = NoIngest

AddMessage ==
    \E role \in {"user", "assistant"}, content \in UserInputs :
        /\ Len(history) < MaxAdded
        /\ memory' = add_message(memory, role, content)
        /\ history' = Append(history, Message(role, content))
        /\ UNCHANGED <<engineVars, expenses, chat_history, turn, weather, gemini, ingest>>

ClearSession ==
    /\ memory' = clear_session(memory)
    /\ history' = <<>>
    /\ UNCHANGED <<engineVars, expenses, chat_history, turn, weather, gemini, ingest>>

NextMemory ==
    \/ AddMessage
    \/ ClearSession

SpecMemory == InitMemory /\ [][NextMemory]_vars

\* -------------------------------------------------------------- ingestion
\* s[:n] for n >= 0.
PyFirst(s, n) == IF n >= Len(s) THEN s ELSE SubSeq(s, 1, n)

\* generate_realistic_data with two cities for the ten of lines 71-82.
MaxCount == 4

IngestCities == <<"Paris", "New York">>

\* f"{city.replace(' ', '')}_{idx:03d}", lines 193 and 254.
FormatId(city, idx) ==
    IF city = "New York"
    THEN <<"NewYork_000", "NewYork_001", "NewYork_002", "NewYork_003",
           "NewYork_004", "NewYork_005", "NewYork_006">>[idx + 1]
    ELSE <<"Paris_000", "Paris_001", "Paris_002", "Paris_003",
           "Paris_004", "Paris_005", "Paris_006">>[idx + 1]

\* _create_attraction_from_osm, lines 163-211: the id is built from the
\* position the caller passes.
create_attraction_from_osm(city, idx) ==
    Attraction(FormatId(city, idx), city, "Museum", 10, 45, "art")

\* _generate_single_attraction, lines 213-272: the id is built from the
\* size of the engine's catalog (line 251).
generate_single_attraction(cat, city) ==
    Attraction(FormatId(city, Len(cat)), city, "Park", 0, 38, "garden")

\* What the Overpass request of one city ends with: an exception, a status
\* other than 200, or a number of elements with tags.
ApiOutcomes(count) ==
    { [raised |-> TRUE, ok |-> FALSE, elements |-> 0],
      [raised |-> FALSE, ok |-> FALSE, elements |-> 0] } \cup
    { [raised |-> FALSE, ok |-> TRUE, elements |-> n] : n \in 0..(count + 1) }

\* _get_city_attractions, lines 105-161.
get_city_attractions(cat, city, count, api) ==
    LET taken == IF api.raised \/ ~api.ok THEN 0
                 ELSE IF api.elements < count THEN api.elements ELSE count
    IN  [i \in 1..count |->
            IF i <= taken THEN create_attraction_from_osm(city, i - 1)
                          ELSE generate_single_attraction(cat, city)]

\* generate_realistic_data, lines 59-103: `apis` is what the request of
\* each city ends with and `extra` the cities drawn by the loop of lines
\* 96-101.
generate_realistic_data(cat, count, apis, extra) ==
    LET attractions_per_city == count \div Len(IngestCities)
        per_city == [c \in 1..Len(IngestCities) |->
                        get_city_attractions(cat, IngestCities[c],
                                             attractions_per_city, apis[c])]
        extras == [i \in 1..Len(extra) |-> generate_single_attraction(cat, extra[i])]
    IN  PyFirst(per_city[1] \o per_city[2] \o extras, count)

\* generate_realistic_data(count) is called on the engine.
Generate ==
    /\ Idle
    /\ \E count \in 0..MaxCount :
       \E apis \in [1..Len(IngestCities) -> ApiOutcomes(count \div Len(IngestCities))],
          extra \in [1..(count % Len(IngestCities)) -> {"Paris", "New York"}] :
           ingest' = [pc |-> "generated", count |-> count,
                      attractions |-> generate_realistic_data(attractions, count,
                                                              apis, extra)]
    /\ UNCHANGED <<engineVars, memory, history, expenses, chat_history, turn,
                   weather, gemini>>

\* Lines 513-514: the generated batch is fed to add_attractions.
AddGenerated ==
    /\ Idle
    /\ ingest.pc = "generated"
    /\ ingest.attractions # <<>>
    /\ Len(attractions) + Len(ingest.attractions) <= MaxCat
    /\ add_attractions(ingest.attractions, TRUE, D)
    /\ ingest' = NoIngest
    /\ UNCHANGED <<disk, threads, memory, history, expenses, chat_history, turn,
                   weather, gemini>>

NextIngest ==
    \/ Generate
    \/ AddGenerated
    \/ Return

SpecIngest == Init /\ [][NextIngest]_vars

\* ------------------------------------------------------------ WeatherTool
\* What the three requests of get_weather_summary end with, each after its
\* retries: "None" (every attempt failed), "empty" (a response whose JSON is
\* empty), "data" (a well-formed response), "bad" (a response without the
\* expected keys).
WeatherResponses ==
    { [current |-> "None", geo |-> "None",  forecast |-> "None"],
      [current |-> "data", geo |-> "data",  forecast |-> "data"],
      [current |-> "data", geo |-> "empty", forecast |-> "data"],
      [current |-> "bad",  geo |-> "data",  forecast |-> "data"] }

\* get_current_weather, lines 60-83: None, the parsed mapping, or KeyError.
get_current_weather(response) ==
    CASE response \in {"None", "empty"} -> "None"
      [] response = "bad" -> "KeyError"
      [] OTHER -> "current"

\* get_forecast, lines 85-131, with get_coordinates, lines 45-58: the empty
\* list without coordinates or without forecast data, else the forecast.
get_forecast(geo, forecast) ==
    CASE geo \in {"None", "empty"} -> "[]"
      [] geo = "bad" -> "KeyError"
      [] forecast \in {"None", "empty"} -> "[]"
      [] forecast = "bad" -> "KeyError"
      [] OTHER -> "forecast"

\* get_weather_summary that raises when there is no current weather.
get_weather_summary_Raises(city, responses) ==
    IF get_current_weather(responses.current) \in {"KeyError", "None"}
    THEN [raised |-> TRUE, value |-> "KeyError"]
    ELSE [raised |-> FALSE, value |-> "summary"]

\* get_weather_summary, lines 133-158: the exception raised, the mapping
\* with an 'error' key, or the summary.
get_weather_summary(city, responses) ==
    LET current == get_current_weather(responses.current)
        forecast == get_forecast(responses.geo, responses.forecast)
    IN  IF current = "KeyError" \/ forecast = "KeyError"
        THEN [raised |-> TRUE, value |-> "KeyError"]
        ELSE IF current = "None" \/ forecast = "[]"
        THEN [raised |-> FALSE, value |-> "error"]
        ELSE [raised |-> FALSE, value |-> "summary"]

\* WeatherTool._make_request, lines 30-43, one step per HTTP attempt and per
\* sleep.  weather.log lists the attempts with what they ended with and the
\* sleeps with their length, in the order they happen.
MaxRetries == 4
MaxDelay == 3

\* What one requests.get / raise_for_status / json ends with: a response,
\* a requests.RequestException, or another exception.
AttemptOutcomes == {"ok", "RequestException", "ValueError"}

Get(attempt, outcome) == [kind |-> "get", attempt |-> attempt, outcome |-> outcome, delay |-> 0]

Sleep(attempt, delay) == [kind |-> "sleep", attempt |-> attempt, outcome |-> "", delay |-> delay]

\* A loop that sleeps after every failed attempt.
SleepsAfter_Every(attempt, retry_count) == TRUE

\* Line 38: attempt < self.retry_count - 1.
SleepsAfter(attempt, retry_count) == attempt < retry_count - 1

\* Line 39: self.retry_delay * (2 ** attempt).
Backoff(retry_delay, attempt) == retry_delay * 2 ^ attempt

\* _make_request is called on a tool built with some retry_count and
\* retry_delay.
RequestCall ==
    /\ weather.pc \in {"idle", "done"}
    /\ \E retry_count \in 0..MaxRetries, retry_delay \in 1..MaxDelay :
           weather' = [NoRequest EXCEPT !.pc = "loop",
                                        !.retry_count = retry_count,
                                        !.retry_delay = retry_delay]
    /\ UNCHANGED <<engineVars, memory, history, expenses, chat_history, turn, gemini, ingest>>

\* Lines 31-35: the next attempt of the loop.
RequestAttempt ==
    /\ weather.pc = "loop"
    /\ weather.attempt < weather.retry_count
    /\ \E outcome \in AttemptOutcomes :
           weather' = [weather EXCEPT
               !.log = Append(@, Get(weather.attempt, outcome)),
               !.pc = IF outcome = "RequestException" THEN "except" ELSE "done",
               !.result = CASE outcome = "ok" -> <<"response">>
                            [] outcome = "ValueError" -> <<"raised">>
                            [] OTHER -> @]
    /\ UNCHANGED <<engineVars, memory, history, expenses, chat_history, turn, gemini, ingest>>

\* Lines 36-39: a failed attempt that is not the last one is followed by
\* the sleep and the next iteration.
RequestSleep ==
    /\ weather.pc = "except"
    /\ SleepsAfter(weather.attempt, weather.retry_count)
    /\ weather' = [weather EXCEPT
           !.log = Append(@, Sleep(weather.attempt,
                                   Backoff(weather.retry_delay, weather.attempt))),
           !.attempt = @ + 1,
           !.pc = "loop"]
    /\ UNCHANGED <<engineVars, memory, history, expenses, chat_history, turn, gemini, ingest>>

\* Lines 40-42: the last attempt failed and None is returned.
RequestGiveUp ==
    /\ weather.pc = "except"
    /\ ~SleepsAfter(weather.attempt, weather.retry_count)
    /\ weather' = [weather EXCEPT !.pc = "done", !.result = <<"None">>]
    /\ UNCHANGED <<engineVars, memory, history, expenses, chat_history, turn, gemini, ingest>>

\* The loop ends without a return statement: the function returns None.
RequestFallOff ==
    /\ weather.pc = "loop"
    /\ weather.attempt >= weather.retry_count
    /\ weather' = [weather EXCEPT !.pc = "done", !.result = <<"None">>]
    /\ UNCHANGED <<engineVars, memory, history, expenses, chat_history, turn, gemini, ingest>>

NextRequest ==
    \/ RequestCall
    \/ RequestAttempt
    \/ RequestSleep
    \/ RequestGiveUp
    \/ RequestFallOff

SpecRequest == Init /\ [][NextRequest]_vars

\* ----------------------------------------------------------- GeminiClient
\* GeminiClient.generate_response, lines 39-73, one step per call to the
\* model and per sleep.  What one iteration's try block ends with: the
\* text, a SAFETY finish reason, or an exception (generate_content raises,
\* response.candidates is empty, response.text has no parts).
CallOutcomes == {"text", "SAFETY", "ApiError", "IndexError", "ValueError"}

Refusal == "I apologize, but I cannot provide a response"

Call(attempt, outcome) == [kind |-> "call", attempt |-> attempt, outcome |-> outcome, delay |-> 0]

Wait(attempt, delay) == [kind |-> "sleep", attempt |-> attempt, outcome |-> "", delay |-> delay]

\* An except clause for the API's errors only.
Catches_ApiErrors(outcome) == outcome = "ApiError"

\* Line 67: except Exception.
Catches(outcome) == outcome \in {"ApiError", "IndexError", "ValueError"}

\* generate_response is called with some retry_count.
GenerateCall ==
    /\ gemini.pc \in {"idle", "done"}
    /\ \E retry_count \in 0..MaxRetries :
           gemini' = [NoGeneration EXCEPT !.pc = "loop", !.retry_count = retry_count]
    /\ UNCHANGED <<engineVars, memory, history, expenses, chat_history, turn, weather, ingest>>

\* Lines 54-65: the next iteration's try block.
GenerateAttempt ==
    /\ gemini.pc = "loop"
    /\ gemini.attempt < gemini.retry_count
    /\ \E outcome \in CallOutcomes :
           gemini' = [gemini EXCEPT
               !.log = Append(@, Call(gemini.attempt, outcome)),
               !.pc = IF outcome \in {"text", "SAFETY"} THEN "done"
                      ELSE IF Catches(outcome) THEN "except" ELSE "done",
               !.result = CASE outcome = "text" -> <<"text">>
                            [] outcome = "SAFETY" -> <<Refusal>>
                            [] ~Catches(outcome) -> <<"raised">>
                            [] OTHER -> @]
    /\ UNCHANGED <<engineVars, memory, history, expenses, chat_history, turn, weather, ingest>>

\* Lines 67-70: a failed call that is not the last one is followed by the
\* sleep and the next iteration.
GenerateSleep ==
    /\ gemini.pc = "except"
    /\ gemini.attempt < gemini.retry_count - 1
    /\ gemini' = [gemini EXCEPT
           !.log = Append(@, Wait(gemini.attempt, 2 ^ gemini.attempt)),
           !.attempt = @ + 1,
           !.pc = "loop"]
    /\ UNCHANGED <<engineVars, memory, history, expenses, chat_history, turn, weather, ingest>>

\* Lines 71-73: the last call failed and None is returned.
GenerateGiveUp ==
    /\ gemini.pc = "except"
    /\ ~(gemini.attempt < gemini.retry_count - 1)
    /\ gemini' = [gemini EXCEPT !.pc = "done", !.result = <<"None">>]
    /\ UNCHANGED <<engineVars, memory, history, expenses, chat_history, turn, weather, ingest>>

\* The loop ends without a return statement: the function returns None.
GenerateFallOff ==
    /\ gemini.pc = "loop"
    /\ gemini.attempt >= gemini.retry_count
    /\ gemini' = [gemini EXCEPT !.pc = "done", !.result = <<"None">>]
    /\ UNCHANGED <<engineVars, memory, history, expenses, chat_history, turn, weather, ingest>>

NextGenerate ==
    \/ GenerateCall
    \/ GenerateAttempt
    \/ GenerateSleep
    \/ GenerateGiveUp
    \/ GenerateFallOff

SpecGenerate == Init /\ [][NextGenerate]_vars

\* ------------------------------------------------------- BudgetCalculator
Expense(name, category, cost) == [name |-> name, category |-> category, cost |-> cost]

\* reset that keeps the ledger.
reset_Keeps(ledger) == ledger

\* reset, lines 261-264.
reset(ledger) == <<>>

\* add_attraction_costs, lines 62-71.
add_attraction_costs(ledger, places) ==
    ledger \o [i \in 1..Len(places) |->
                  Expense(places[i].name, "attraction", places[i].avg_cost_usd)]

\* add_meal_costs, lines 92-112: a type the cost map does not hold costs a
\* mid-range meal.
add_meal_costs(ledger, meal_type, count) ==
    LET unit_cost == CASE meal_type = "budget" -> 12
                       [] meal_type = "fine_dining" -> 60
                       [] OTHER -> 25
    IN  Append(ledger, Expense("Meals", "food", unit_cost * count))

\* add_transport_cost("local_transport", amount), lines 73-90.
add_transport_cost(ledger) ==
    Append(ledger, Expense("Transport", "transport", 15))

RECURSIVE SumCost(_, _)
SumCost(ledger, n) == IF n = 0 THEN 0 ELSE ledger[n].cost + SumCost(ledger, n - 1)

\* calculate_summary, lines 138-185: the total and the copy of the ledger.
calculate_summary(ledger) ==
    [total_cost |-> SumCost(ledger, Len(ledger)), expenses |-> ledger]

\* ------------------------------------------------------------- AtlasAgent
\* Results of PlaceFinder.find_places(query, limit=10, city_filter): the
\* records are told apart by their names.
PlaceNames == <<"Louvre", "Orsay", "Rodin", "Pantheon", "Forum", "Trevi">>

Places(n) == [i \in 1..n |-> [name |-> PlaceNames[i], avg_cost_usd |-> 10 + i]]

\* What find_places ends with: the exception search_similar raises, or a
\* list of 0, 2 or 6 records.
PlaceOutcomes ==
    { [raised |-> TRUE, value |-> <<>>] } \cup
    { [raised |-> FALSE, value |-> Places(n)] : n \in {0, 2, Len(PlaceNames)} }

\* What generate_with_tools returns: a text (the model's, or the refusal
\* message) or None.
LlmOutcomes == {"text", "None"}

\* The text after each destination pattern that occurs in the input, in the
\* order of the patterns of lines 154-157, cut to three words and stripped.
PatternRests(user_input) ==
    CASE user_input = "weather in paris"    -> <<"paris">>
      [] user_input = "budget trip to rome" -> <<"rome">>
      [] user_input = "luxury trip to ny"   -> <<"ny", "ny">>
      [] OTHER                              -> <<>>

StrLen(text) == CASE text = "ny" -> 2 [] text = "rome" -> 4 [] OTHER -> 5

\* str.title() on the destinations.
Title(text) ==
    CASE text = "paris" -> "Paris" [] text = "rome" -> "Rome"
      [] text = "ny" -> "Ny" [] OTHER -> text

\* _extract_destination without the stored destination.
extract_destination_NoFallback(mem, user_input) ==
    LET long == SelectSeq(PatternRests(user_input), LAMBDA d : StrLen(d) > 2)
    IN  IF long # <<>> THEN <<Title(long[1])>> ELSE <<>>

\* _extract_destination, lines 150-174: <<>> for None.
extract_destination(mem, user_input) ==
    LET long == SelectSeq(PatternRests(user_input), LAMBDA d : StrLen(d) > 2)
        current_dest == mem.session_context.current_destination
    IN  IF long # <<>> THEN <<Title(long[1])>>
        ELSE IF current_dest # <<>> /\ current_dest[1] # "" THEN current_dest
        ELSE <<>>

\* _analyze_intent, lines 114-148.
analyze_intent(mem, user_input) ==
    LET words == Keywords(user_input)
        planning == "trip" \in words
    IN  [needs_weather |-> "weather" \in words \/ planning,
         needs_places |-> words \cap {"museum", "recommend"} # {} \/ planning,
         needs_budget |-> "budget" \in words \/ planning,
         destination |-> extract_destination(mem, user_input)]

\* The reply of the except branch of process_message, line 112, and of the
\* `or` of _generate_response, line 253.
ErrorReply == "I apologize, but I encountered an error"
FallbackReply == "I apologize, but I'm having trouble"

\* process_message, lines 82-112, with _execute_tools (176-223) and
\* _generate_response (237-253), given what the weather requests, the place
\* search and the LLM end with: the memory and the ledger after the call
\* and the call's record.  An exception leaves the statements after it
\* undone and is answered by the error string.
process_message(mem, ledger, user_input, responses, found, generated) ==
    LET mem1 == add_message(mem, "user", user_input)
        tool_needs == analyze_intent(mem1, user_input)
        destination == tool_needs.destination
        mem2 == IF destination # <<>>
                THEN update_session_context(mem1, destination[1]) ELSE mem1
        calls_weather == tool_needs.needs_weather /\ destination # <<>>
        weather_data == get_weather_summary(destination[1], responses)
        weather_raised == calls_weather /\ weather_data.raised
        calls_places == ~weather_raised /\ tool_needs.needs_places
        places_raised == calls_places /\ found.raised
        places == IF calls_places /\ ~found.raised THEN <<found.value>> ELSE <<>>
        has_places == places # <<>> /\ places[1] # <<>>
        calls_budget == ~weather_raised /\ ~places_raised
                        /\ (tool_needs.needs_budget \/ has_places)
        travel_style == IF mem2.user_preferences # <<>>
                        THEN mem2.user_preferences[1].travel_style ELSE "mid_range"
        with_attractions == IF has_places
                            THEN add_attraction_costs(reset(ledger), PyFirst(places[1], 5))
                            ELSE reset(ledger)
        ledger1 == add_transport_cost(add_meal_costs(with_attractions, travel_style, 3))
        results == [weather |-> IF calls_weather /\ ~weather_raised
                                THEN <<weather_data.value>> ELSE <<>>,
                    places |-> places,
                    budget |-> IF calls_budget
                               THEN <<calculate_summary(ledger1)>> ELSE <<>>]
        response == IF generated = "None" THEN FallbackReply ELSE generated
        call == [NoTurn EXCEPT !.op = "process_message",
                               !.user_input = user_input,
                               !.destination = destination,
                               !.weather_call =
                                   IF calls_weather
                                   THEN <<[city |-> destination[1],
                                           responses |-> responses]>>
                                   ELSE <<>>,
                               !.places_call =
                                   IF calls_places
                                   THEN <<[city_filter |-> destination,
                                           raised |-> found.raised]>>
                                   ELSE <<>>]
    IN  IF weather_raised \/ places_raised
        THEN [memory |-> mem2, expenses |-> ledger,
              turn |-> [call EXCEPT !.outcome = "error", !.reply = ErrorReply]]
        ELSE [memory |-> add_message(mem2, "assistant", response),
              expenses |-> IF calls_budget THEN ledger1 ELSE ledger,
              turn |-> [call EXCEPT !.results = <<results>>, !.reply = response]]

\* The assistant as AtlasAgent.__init__ builds it, with a short history
\* limit.
InitAgent ==
    /\ attractions = <<>>
    /\ index = IndexFlatIP(D)
    /\ id_to_idx = <<>>
    /\ dimension = D
    /\ disk = [faiss |-> NoFaiss, json |-> NoJson]
    /\ lastCall = NoCall
    /\ threads = NoThreads
    /\ memory = ConversationMemory(MaxHistory)
    /\ history = <<>>
    /\ expenses = <<>>
    /\ chat_history = <<>>
    /\ turn = NoTurn
    /\ weather = NoRequest
    /\ gemini = NoGeneration
    /\ ingest = NoIngest

\* One call of process_message.  The outcomes of the weather requests and of
\* the place search are drawn only when the call makes them.
ProcessMessage ==
    \E user_input \in UserInputs, generated \in LlmOutcomes :
    \E responses \in IF /\ analyze_intent(memory, user_input).needs_weather
                        /\ analyze_intent(memory, user_input).destination # <<>>
                     THEN WeatherResponses
                     ELSE {CHOOSE r \in WeatherResponses : TRUE} :
    \E found \in IF analyze_intent(memory, user_input).needs_places
                 THEN PlaceOutcomes
                 ELSE {CHOOSE f \in PlaceOutcomes : TRUE} :
        LET r == process_message(memory, expenses, user_input, responses,
                                 found, generated)
        IN  /\ memory' = r.memory
            /\ expenses' = r.expenses
            /\ turn' = r.turn
            /\ UNCHANGED <<engineVars, history, chat_history, weather, gemini, ingest>>

\* reset_session, lines 265-269.
ResetSession ==
    /\ memory' = clear_session(memory)
    /\ expenses' = reset(expenses)
    /\ turn' = [NoTurn EXCEPT !.op = "reset_session"]
    /\ UNCHANGED <<engineVars, history, chat_history, weather, gemini, ingest>>

NextAgent ==
    \/ ProcessMessage
    \/ ResetSession

SpecAgent == InitAgent /\ [][NextAgent]_vars

\* ---------------------------------------------------------------- AtlasUI
MaxInputs == 2

Entry(role, content) == [role |-> role, content |-> content]

\* AtlasUI.process_user_input, lines 306-329: the user entry is appended,
\* then process_message is called; reading "content" from the error string
\* raises AttributeError before the assistant entry is appended.
ProcessUserInput ==
    /\ Len(chat_history) < 2 * MaxInputs
    /\ \E user_input \in UserInputs, generated \in LlmOutcomes :
       \E responses \in IF /\ analyze_intent(memory, user_input).needs_weather
                           /\ analyze_intent(memory, user_input).destination # <<>>
                        THEN WeatherResponses
                        ELSE {CHOOSE r \in WeatherResponses : TRUE} :
       \E found \in IF analyze_intent(memory, user_input).needs_places
                    THEN PlaceOutcomes
                    ELSE {CHOOSE f \in PlaceOutcomes : TRUE} :
           LET r == process_message(memory, expenses, user_input, responses,
                                    found, generated)
               entered == Append(chat_history, Entry("user", user_input))
           IN  /\ memory' = r.memory
               /\ expenses' = r.expenses
               /\ turn' = r.turn
               /\ chat_history' = IF r.turn.outcome = "ok"
                                  THEN Append(entered, Entry("assistant", r.turn.reply))
                                  ELSE entered
               /\ UNCHANGED <<engineVars, history, weather, gemini, ingest>>

\* The reset button of the sidebar, lines 107-109.
ResetButton ==
    /\ memory' = clear_session(memory)
    /\ expenses' = reset(expenses)
    /\ chat_history' = <<>>
    /\ turn' = [NoTurn EXCEPT !.op = "reset_session"]
    /\ UNCHANGED <<engineVars, history, weather, gemini, ingest>>

NextUI ==
    \/ ProcessUserInput
    \/ ResetButton

SpecUI == InitAgent /\ [][NextUI]_vars

\* ------------------------------------------------------------- claims
\* What the filters of the specification let through: a supplied filter
\* (any value other than None) must match, category and city ignoring case,
\* the cost inclusively.
Passes(a, category_filter, city_filter, max_cost) ==
    /\ category_filter # <<>> => Lower(a.category) = Lower(category_filter[1])
    /\ city_filter # <<>> => Lower(a.city) = Lower(city_filter[1])
    /\ max_cost # <<>> => a.avg_cost_usd <= max_cost[1]

Take(s, n) == SubSeq(s, 1, IF n <= 0 THEN 0 ELSE IF n < Len(s) THEN n ELSE Len(s))

\* The brute-force reference: the whole ranking, filtered, then truncated.
Reference(cat, ranking, k, category_filter, city_filter, max_cost) ==
    LET passing == SelectSeq(ranking,
                       LAMBDA e : Passes(cat[e.idx + 1], category_filter,
                                         city_filter, max_cost))
    IN  [i \in 1..Len(Take(passing, k)) |->
            [rec |-> cat[passing[i].idx + 1],
             similarity_score |-> passing[i].score]]

SearchReturned == lastCall.op = "search" /\ lastCall.outcome = "ok"

\* C2: a search that returns returns what the brute-force reference returns
\* on the same ranking: rank all records, keep those passing the filters,
\* truncate to the limit.
C2_SearchEqualsReference ==
    (SearchReturned /\ Len(attractions) > 0) =>
        lastCall.results =
            Reference(attractions, lastCall.ranking, lastCall.k,
                      lastCall.category_filter, lastCall.city_filter,
                      lastCall.max_cost)

\* C3: a search with a limit k <= 0 returns the empty sequence.
C3_NonPositiveLimitEmpty ==
    (SearchReturned /\ lastCall.k <= 0) => lastCall.results = <<>>

\* C4: every record a search returns satisfies every filter supplied,
\* max_cost = 0 included.
C4_ResultsPassFilters ==
    SearchReturned =>
        \A i \in 1..Len(lastCall.results) :
            Passes(lastCall.results[i].rec, lastCall.category_filter,
                   lastCall.city_filter, lastCall.max_cost)

\* The batch repeats an id of the catalog or one of its own.
HasDuplicateId(cat, batch) ==
    \/ \E i \in 1..Len(batch), p \in 1..Len(cat) : batch[i].id = cat[p].id
    \/ \E i, j \in 1..Len(batch) : i # j /\ batch[i].id = batch[j].id

\* C5: an add whose batch holds an id already in the catalog, or twice in
\* the batch, signals an error and changes neither the catalog, nor the
\* index, nor the id-to-position map.
C5_DuplicateBatchRejected ==
    [][(Idle /\ lastCall'.op = "add" /\ lastCall'.providerUp
             /\ lastCall'.dim = index.d
             /\ HasDuplicateId(attractions, lastCall'.batch))
        => /\ lastCall'.outcome # "ok"
           /\ attractions' = attractions
           /\ index' = index
           /\ id_to_idx' = id_to_idx]_vars

\* C6: the map sends the id of the record at each position to that position
\* and has one entry per record.
C6_IdMapsToOwnPosition ==
    /\ \A p \in 0..(Len(attractions) - 1) :
           /\ attractions[p + 1].id \in DOMAIN id_to_idx
           /\ id_to_idx[attractions[p + 1].id] = p
    /\ Cardinality(DOMAIN id_to_idx) = Len(attractions)

\* C7: an add whose embeddings have another dimension than the index is
\* rejected, and catalog, index and id-to-position map stay as they were.
C7_DimensionMismatchRejected ==
    [][(Idle /\ lastCall'.op = "add" /\ lastCall'.providerUp
             /\ lastCall'.dim # index.d)
        => /\ lastCall'.outcome = "AssertionError"
           /\ attractions' = attractions
           /\ index' = index
           /\ id_to_idx' = id_to_idx]_vars

C7_Witness ==
    /\ lastCall.op = "add"
    /\ lastCall.outcome = "AssertionError"
    /\ Len(lastCall.batch) = MaxBatch
    /\ Len(attractions) > 0
    /\ Len(index.vecs) = Len(attractions)

\* C8: when the embedding provider fails, a search on a non-empty catalog
\* raises the failure and returns no result, and an add raises it with
\* catalog, index and id-to-position map unchanged.
C8_ProviderFailureSurfaced ==
    [][(Idle /\ ~lastCall'.providerUp)
        => /\ (lastCall'.op = "search" /\ Len(attractions) > 0)
                  => /\ lastCall'.outcome = "ProviderError"
                     /\ lastCall'.results = <<>>
           /\ lastCall'.op = "add"
                  => /\ lastCall'.outcome = "ProviderError"
                     /\ attractions' = attractions
                     /\ index' = index
                     /\ id_to_idx' = id_to_idx]_vars

C8_Witness ==
    /\ lastCall.op = "search"
    /\ ~lastCall.providerUp
    /\ lastCall.outcome = "ProviderError"
    /\ lastCall.k > 0
    /\ Len(attractions) > 0

\* C9: a search on an empty catalog returns the empty sequence and no
\* error, whatever the query, the limit, the filters and the provider.
C9_EmptyCatalogSearch ==
    (lastCall.op = "search" /\ Len(attractions) = 0) =>
        /\ lastCall.outcome = "ok"
        /\ lastCall.results = <<>>

C9_Witness ==
    /\ lastCall.op = "search"
    /\ Len(attractions) = 0
    /\ ~lastCall.providerUp
    /\ lastCall.k > 0
    /\ lastCall.max_cost # <<>>
    /\ lastCall.outcome = "ok"

\* C1: between calls, the catalog holds as many records as the index holds
\* vectors, whichever calls were made and however each ended.
C1_CatalogMatchesIndex ==
    Len(attractions) = Len(index.vecs)

\* The pair of files is one complete save: the vectors are the normalised
\* embeddings of the sidecar's records, in order and in its dimension.
CompletePair(faiss, json) ==
    /\ faiss.state = "ok"
    /\ json.state = "ok"
    /\ faiss.index.d = json.dimension
    /\ faiss.index.vecs =
           NormalizeL2(Encode([i \in 1..Len(json.attractions) |->
                                   json.attractions[i].description],
                              json.dimension))

\* C10: whatever step of a save was interrupted, a readable vector file on
\* disk is never beside an old, cut or missing sidecar: it has its own
\* complete sidecar.
C10_PairNeverInconsistent ==
    disk.faiss.state = "ok" => CompletePair(disk.faiss, disk.json)

\* C11: a load succeeds only on a pair that is present and consistent: the
\* sidecar's dimension is the vector file's and its record count is the
\* vector count.
C11_LoadValidatesPair ==
    (lastCall.op = "load" /\ lastCall.outcome = "ok") =>
        /\ disk.faiss.state = "ok"
        /\ disk.json.state = "ok"
        /\ disk.json.dimension = disk.faiss.index.d
        /\ Len(disk.json.attractions) = Len(disk.faiss.index.vecs)

\* C12: a load that fails leaves index, catalog, id-to-position map and
\* dimension as they were before the call.
C12_FailedLoadChangesNothing ==
    [][(Idle /\ lastCall'.op = "load" /\ lastCall'.outcome # "ok")
        => UNCHANGED dbVars]_vars

Embeddings(sub, seq) ==
    { p \in [1..Len(sub) -> 1..Len(seq)] :
          \A i, j \in 1..Len(sub) : i < j => p[i] < p[j] }

\* C15: the ranking a search walks holds every position of the index exactly
\* once, its scores are non-increasing, equal scores come in ascending
\* position, and the results are records of the ranking in its order with
\* their scores.
C15_RankingOrder ==
    (SearchReturned /\ lastCall.ranking # <<>>) =>
        LET ranking == lastCall.ranking
            results == lastCall.results
        IN  /\ Len(ranking) = Len(index.vecs)
            /\ \A pos \in 0..(Len(index.vecs) - 1) :
                   Cardinality({ i \in 1..Len(ranking) : ranking[i].idx = pos }) = 1
            /\ \A i, j \in 1..Len(ranking) : i < j =>
                   /\ ranking[i].score >= ranking[j].score
                   /\ ranking[i].score = ranking[j].score =>
                          ranking[i].idx < ranking[j].idx
            /\ \E p \in Embeddings(results, ranking) :
                   \A j \in 1..Len(results) :
                       /\ results[j].rec = attractions[ranking[p[j]].idx + 1]
                       /\ results[j].similarity_score = ranking[p[j]].score

\* C16: get_by_id returns without raising; for an id that records of the
\* catalog carry it returns each such record, and for an id no record
\* carries it returns None.
C16_GetByIdReturnsRecord ==
    lastCall.op = "get_by_id" =>
        /\ lastCall.outcome = "ok"
        /\ \A i \in 1..Len(attractions) :
               attractions[i].id = lastCall.key =>
                   lastCall.value = <<attractions[i]>>
        /\ (\A i \in 1..Len(attractions) : attractions[i].id # lastCall.key) =>
               lastCall.value = <<>>

\* C17: get_by_city and get_by_category return the records of the catalog
\* whose city (category) equals the argument ignoring case, each once, in
\* catalog order, and nothing else.
C17_ScanReturnsMatches ==
    lastCall.op \in {"get_by_city", "get_by_category"} =>
        LET fieldName == IF lastCall.op = "get_by_city" THEN "city" ELSE "category"
            matching == { i \in 1..Len(attractions) :
                            Lower(attractions[i][fieldName]) = Lower(lastCall.key) }
            value == lastCall.value
        IN  /\ lastCall.outcome = "ok"
            /\ Len(value) = Cardinality(matching)
            /\ \E p \in Embeddings(value, attractions) :
                   \A j \in 1..Len(value) :
                       p[j] \in matching /\ value[j] = attractions[p[j]]

C17_Witness ==
    /\ lastCall.op = "get_by_city"
    /\ lastCall.key = "PARIS"
    /\ Len(lastCall.value) >= 2
    /\ lastCall.value[1].city # lastCall.value[2].city
    /\ Len(lastCall.value) < Len(attractions)

\* C18: a get_statistics call starts from the idle state and leaves the
\* catalog, the index, the id map, the dimension and the files as they were,
\* so the state after it has returned is the state before it.
C18_StatisticsPure ==
    [][lastCall'.op = "get_statistics" =>
           /\ lastCall = NoCall
           /\ UNCHANGED <<dbVars, disk>>]_vars

C18_Witness ==
    /\ lastCall.op = "get_statistics"
    /\ Len(attractions) >= 2
    /\ lastCall.value.total_attractions = Len(attractions)
    /\ lastCall.value.cities >= 2

IsPrefix(s, t) == Len(s) <= Len(t) /\ SubSeq(t, 1, Len(s)) = s

C20_DimensionFixed ==
    [][lastCall'.op # "init" =>
           /\ dimension' = dimension
           /\ index'.d = dimension']_vars

\* C14: a search in flight has ranked the index and the catalog at equal
\* sizes, no add is between its index growth and the end of its catalog
\* growth while the search is past its first read, and the search does not
\* end with an IndexError.
C14_SearchSeesEqualSizes ==
    /\ threads.search.pc \in {"walk", "done"} =>
           /\ threads.search.seen.index = threads.search.seen.catalog
           /\ threads.search.outcome # "IndexError"
    /\ threads.search.pc \in {"encoded", "walk"} =>
           ~(/\ threads.add.pc \in {"indexed", "loop"}
             /\ Len(index.vecs) # Len(attractions))

\* A vector of length 1.0.
IsUnit(v) == SumSq(v, Len(v)) = Unit * Unit

\* C21: every vector of the index, added or loaded, and of the vector file
\* has unit length, the query vector of a search has unit length, and every
\* similarity score ranked or returned lies in [-1, 1].
C21_UnitVectors ==
    /\ \A i \in 1..Len(index.vecs) : IsUnit(index.vecs[i])
    /\ disk.faiss.state = "ok" =>
           \A i \in 1..Len(disk.faiss.index.vecs) : IsUnit(disk.faiss.index.vecs[i])
    /\ (lastCall.op = "search" /\ lastCall.providerUp) =>
           /\ IsUnit(NormalizeL2(Encode(<<lastCall.query>>, lastCall.dim))[1])
           /\ \A i \in 1..Len(lastCall.ranking) :
                  lastCall.ranking[i].idx # -1 =>
                      lastCall.ranking[i].score \in (-(Unit * Unit))..(Unit * Unit)
           /\ \A i \in 1..Len(lastCall.results) :
                  lastCall.results[i].similarity_score
                      \in (-(Unit * Unit))..(Unit * Unit)

C21_Witness ==
    /\ lastCall.op = "search"
    /\ lastCall.outcome = "ok"
    /\ Len(lastCall.results) >= 2
    /\ lastCall.results[2].similarity_score < Unit * Unit
    /\ disk.faiss.state = "ok"
    /\ index = disk.faiss.index

\* C26: the stored messages are the last min(n, max_history) of the n
\* messages added since the last clear, in the order they were added.
C26_HistoryIsLastMessages ==
    LET n == Len(history)
        keep == IF n < memory.max_history THEN n ELSE memory.max_history
    IN  /\ Len(memory.messages) <= memory.max_history
        /\ memory.messages = SubSeq(history, n - keep + 1, n)

\* C22: a reset_session step empties the messages, the session context and
\* the budget ledger and leaves the learned user preferences as they were.
C22_ResetKeepsPreferences ==
    [][turn'.op = "reset_session" =>
          /\ memory'.messages = <<>>
          /\ memory'.session_context = [current_destination |-> <<>>]
          /\ memory'.user_preferences = memory.user_preferences
          /\ memory'.max_history = memory.max_history
          /\ expenses' = <<>>]_vars

C22_Witness ==
    /\ turn.op = "reset_session"
    /\ memory.user_preferences # <<>>
    /\ memory.user_preferences[1].travel_style = "luxury"
    /\ memory.messages = <<>>
    /\ expenses = <<>>

AllFailed(responses) ==
    responses.current = "None" /\ responses.geo = "None" /\ responses.forecast = "None"

\* C28: when every weather request of a message failed, the weather result
\* is the mapping with the 'error' key, the call does not end in the error
\* reply because of it, and the place and budget results the message asks
\* for are produced (unless the place search itself raised).
C28_WeatherFailureServesRest ==
    (/\ turn.op = "process_message"
     /\ turn.weather_call # <<>>
     /\ AllFailed(turn.weather_call[1].responses)
     /\ (turn.places_call = <<>> \/ ~turn.places_call[1].raised))
    => /\ turn.outcome = "ok"
       /\ turn.results # <<>>
       /\ turn.results[1].weather = <<"error">>
       /\ analyze_intent(memory, turn.user_input).needs_places
              => turn.results[1].places # <<>>
       /\ analyze_intent(memory, turn.user_input).needs_budget
              => turn.results[1].budget # <<>>

C28_Witness ==
    /\ turn.op = "process_message"
    /\ turn.weather_call # <<>>
    /\ AllFailed(turn.weather_call[1].responses)
    /\ turn.results # <<>>
    /\ turn.results[1].weather = <<"error">>
    /\ turn.results[1].places # <<>>
    /\ Len(turn.results[1].places[1]) = Len(PlaceNames)
    /\ turn.results[1].budget # <<>>

\* C29: the ledger is empty or holds at most 5 attraction expenses followed
\* by one meal expense and one transport expense; after a message that
\* computed a budget the attraction expenses are the first 5 places of that
\* message's search result, in order.
C29_LedgerOfLatestBudget ==
    LET n == Len(expenses)
    IN  /\ expenses = <<>> \/
            /\ 2 <= n /\ n <= 7
            /\ \A i \in 1..(n - 2) : expenses[i].category = "attraction"
            /\ expenses[n - 1].category = "food"
            /\ expenses[n].category = "transport"
        /\ (turn.op = "process_message" /\ turn.results # <<>>
               /\ turn.results[1].budget # <<>>) =>
              LET places == IF turn.results[1].places = <<>> THEN <<>>
                            ELSE turn.results[1].places[1]
                  k == IF Len(places) < 5 THEN Len(places) ELSE 5
              IN  /\ n = k + 2
                  /\ \A i \in 1..k : /\ expenses[i].name = places[i].name
                                     /\ expenses[i].cost = places[i].avg_cost_usd
                  /\ turn.results[1].budget[1].expenses = expenses

C29_Witness ==
    /\ turn.op = "process_message"
    /\ turn.results # <<>>
    /\ turn.results[1].budget # <<>>
    /\ turn.results[1].places # <<>>
    /\ Len(turn.results[1].places[1]) = Len(PlaceNames)
    /\ Len(expenses) = 7
    /\ Len(memory.messages) >= 2

\* The destination a message yields by itself.
Extracted(user_input) ==
    extract_destination(ConversationMemory(0), user_input)

\* C30: a message that yields a destination stores it; a message that
\* yields none uses the stored one, for the weather lookup and as the city
\* filter of the place search, and leaves it stored; reset_session clears
\* it, and without a stored destination no weather is fetched and the place
\* search has no city filter.
C30_StoredDestination ==
    [][LET stored == memory.session_context.current_destination
           stored_after == memory'.session_context.current_destination
       IN  /\ turn'.op = "reset_session" => stored_after = <<>>
           /\ (turn'.op = "process_message" /\ Extracted(turn'.user_input) # <<>>) =>
                  /\ turn'.destination = Extracted(turn'.user_input)
                  /\ stored_after = turn'.destination
           /\ (turn'.op = "process_message" /\ Extracted(turn'.user_input) = <<>>) =>
                  /\ turn'.destination = stored
                  /\ stored_after = stored
                  /\ turn'.weather_call # <<>> => stored # <<>>
                         /\ turn'.weather_call[1].city = stored[1]
                  /\ (analyze_intent(memory, turn'.user_input).needs_weather
                         /\ stored # <<>>) => turn'.weather_call # <<>>
                  /\ turn'.places_call # <<>> =>
                         turn'.places_call[1].city_filter = stored]_vars

C30_Witness ==
    /\ turn.op = "process_message"
    /\ Extracted(turn.user_input) = <<>>
    /\ turn.destination = <<"Paris">>
    /\ turn.weather_call # <<>>
    /\ turn.weather_call[1].city = "Paris"
    /\ turn.places_call # <<>>
    /\ turn.places_call[1].city_filter = <<"Paris">>

\* C27: every user entry of chat_history is followed by exactly one
\* assistant entry, and after an input was handled the agent's memory ends
\* with the user message followed by one assistant message.
C27_OneReplyPerInput ==
    /\ Len(chat_history) % 2 = 0
    /\ \A i \in 1..Len(chat_history) :
           chat_history[i].role = IF i % 2 = 1 THEN "user" ELSE "assistant"
    /\ turn.op = "process_message" =>
           LET n == Len(memory.messages)
           IN  /\ n >= 2
               /\ memory.messages[n - 1] = Message("user", turn.user_input)
               /\ memory.messages[n].role = "assistant"

Gets(log) == SelectSeq(log, LAMBDA e : e.kind = "get")

\* C24: _make_request makes at most retry_count attempts, numbered from 0
\* without a gap; a successful attempt is the last entry of the log and its
\* response is what is returned; None is returned exactly when all
\* retry_count attempts raised a request error; every sleep follows a failed
\* attempt that is not the last one, lasts retry_delay * 2^attempt and is
\* followed by the next attempt, and attempts are separated by one sleep.
C24_BoundedRetries ==
    LET log == weather.log
        n == Len(log)
        gets == Gets(log)
    IN  /\ Len(gets) <= weather.retry_count
        /\ \A i \in 1..Len(gets) : gets[i].attempt = i - 1
        /\ \A i \in 1..n :
               /\ log[i].kind = IF i % 2 = 1 THEN "get" ELSE "sleep"
               /\ (log[i].kind = "get" /\ log[i].outcome # "RequestException") => i = n
               /\ log[i].kind = "sleep" =>
                      /\ log[i - 1].outcome = "RequestException"
                      /\ log[i].attempt = log[i - 1].attempt
                      /\ log[i].attempt < weather.retry_count - 1
                      /\ log[i].delay = weather.retry_delay * 2 ^ log[i].attempt
        /\ weather.pc = "done" =>
               /\ n > 0 => log[n].kind = "get"
               /\ weather.result = <<"response">> <=> (n > 0 /\ log[n].outcome = "ok")
               /\ weather.result = <<"None">> <=>
                      /\ Len(gets) = weather.retry_count
                      /\ \A i \in 1..Len(gets) : gets[i].outcome = "RequestException"

C24_Witness ==
    /\ weather.pc = "done"
    /\ weather.retry_count = 3
    /\ weather.retry_delay = 2
    /\ weather.result = <<"None">>
    /\ Len(weather.log) = 5
    /\ weather.log[4] = Sleep(1, 4)

Calls(log) == SelectSeq(log, LAMBDA e : e.kind = "call")

\* C25: generate_response makes at most retry_count calls; a call that
\* yields text or a SAFETY finish reason is the last one, and the text,
\* respectively the refusal message, is returned; None is returned exactly
\* when all retry_count calls raised; the function returns a value, never
\* an exception.
C25_BoundedGeneration ==
    LET log == gemini.log
        n == Len(log)
        calls == Calls(log)
    IN  /\ Len(calls) <= gemini.retry_count
        /\ \A i \in 1..Len(calls) : calls[i].attempt = i - 1
        /\ \A i \in 1..n :
               (log[i].kind = "call" /\ log[i].outcome \in {"text", "SAFETY"}) => i = n
        /\ gemini.pc = "done" =>
               /\ gemini.result \in {<<"text">>, <<Refusal>>, <<"None">>}
               /\ gemini.result = <<"text">> <=> (n > 0 /\ log[n].outcome = "text")
               /\ gemini.result = <<Refusal>> <=> (n > 0 /\ log[n].outcome = "SAFETY")
               /\ gemini.result = <<"None">> <=>
                      /\ Len(calls) = gemini.retry_count
                      /\ \A i \in 1..Len(calls) : calls[i].outcome \notin {"text", "SAFETY"}

C25_Witness ==
    /\ gemini.pc = "done"
    /\ gemini.retry_count = 3
    /\ Len(Calls(gemini.log)) = 3
    /\ gemini.log[1].outcome = "IndexError"
    /\ gemini.log[3].outcome = "ValueError"
    /\ gemini.log[5].outcome = "SAFETY"
    /\ gemini.result = <<Refusal>>

\* C23: the records of a generated batch have pairwise distinct ids, none
\* of which is the id of a record of the catalog.
C23_GeneratedIdsDistinct ==
    ingest.pc = "generated" =>
        LET batch == ingest.attractions
        IN  /\ \A i, j \in 1..Len(batch) : i # j => batch[i].id # batch[j].id
            /\ \A i \in 1..Len(batch), j \in 1..Len(attractions) :
                   batch[i].id # attractions[j].id


====
